---- MODULE Spec2Model ----
(***************************************************************************)
(* Boundary-tag block allocator of coalesce.c: a 256-byte arena `area`,    *)
(* simple_init, first-fit simple_allocate with split-or-consume, and       *)
(* simple_release with coalescing.  The arena is modelled byte by byte;    *)
(* pointers into it are modelled as offsets from `area`.                   *)
(***************************************************************************)
EXTENDS Integers, Sequences, FiniteSets, TLC

\* ---------------------------------------------------------------- constants
FREE == 0
ALLOCATED == 1
BYTE_COUNT == 256
MIN_PAYLOAD_SIZE == 2
MIN_BLOCK_SIZE == 6
HEADER_SIZE == 2
CONTROL_FIELDS_SIZE == 4

\* the null pointer; every other pointer is an offset 0..BYTE_COUNT-1 into area
NULL == -1

\* area is aligned on 65536: its address is a non-zero multiple of 65536
AreaBase == 65536

\* width of an unsigned char
ByteMod == 256

\* ------------------------------------------------------------------- bounds
\* calls of simple_allocate / simple_release made by the driver after init
MaxCalls == 6
\* handles the driver holds at one time
MaxHandles == 3

\* request sizes the driver passes to simple_allocate
ReqSizes == {0, 1, 12, 100, 238, 239, 244, 253}

Offsets == 0 .. (BYTE_COUNT - 1)

VARIABLES
  pc,        \* "start" before simple_init has run, "run" after
  area,      \* the arena: Offsets -> 0..255
  handles,   \* user pointers returned by simple_allocate and not yet released
  lastOp,    \* the call that produced this state: "none", "init", "alloc", "release"
  lastReq,   \* argument of that call (req_size, or the released user pointer)
  lastRet,   \* value simple_allocate returned (NULL otherwise)
  scanned,   \* offsets of the blocks the last simple_allocate examined, in order
  oob,       \* TRUE once a call touched a byte outside area
  calls,     \* number of allocate/release calls made so far
  absorbed,  \* offsets of the right neighbours the last simple_release merged
  scen       \* position in the scenario init, 3 x allocate(12), 3 x release

vars == <<pc, area, handles, lastOp, lastReq, lastRet, scanned, oob, calls,
          absorbed, scen>>

\* ---------------------------------------------------------- byte accessors
Byte(v) == v % ByteMod

\* *(area + i) as an rvalue; a read outside area is flagged by the caller
\* through the set of touched offsets
Rd(a, i) == IF i \in Offsets THEN a[i] ELSE 0

\* *(area + i) = v, truncated to unsigned char
Wr(a, i, v) == IF i \in Offsets THEN [a EXCEPT ![i] = Byte(v)] ELSE a

TOP_STATUS(a, block_ptr) == Rd(a, block_ptr)
TOP_SIZE(a, block_ptr) == Rd(a, block_ptr + 1)
PAYLOAD_SIZE(a, block_ptr) == TOP_SIZE(a, block_ptr)
BLOCK_SIZE(a, block_ptr) == TOP_SIZE(a, block_ptr) + CONTROL_FIELDS_SIZE
USER_PTR(block_ptr) == block_ptr + HEADER_SIZE
\* offsets of the trailer fields and of the next block's header fields
BottomSizeAt(a, block_ptr) == block_ptr + PAYLOAD_SIZE(a, block_ptr) + 2
BottomStatusAt(a, block_ptr) == block_ptr + PAYLOAD_SIZE(a, block_ptr) + 3
NextTopStatusAt(a, block_ptr) == block_ptr + PAYLOAD_SIZE(a, block_ptr) + 4
NextTopSizeAt(a, block_ptr) == block_ptr + PAYLOAD_SIZE(a, block_ptr) + 5
BOTTOM_SIZE(a, block_ptr) == Rd(a, BottomSizeAt(a, block_ptr))
BOTTOM_STATUS(a, block_ptr) == Rd(a, BottomStatusAt(a, block_ptr))

\* the zero-initialised global array
ZeroArea == [i \in Offsets |-> 0]

\* ------------------------------------------------------------- simple_init
\* mutant: only the two sentinels' overhead is subtracted
InitFreePayload_two_overheads == BYTE_COUNT - 8

InitFreePayload == BYTE_COUNT - 12

\* mutant: the bottom sentinel's trailer written as its comments label it
\* (area[2] the status, area[3] the size)
simple_init_as_labelled(a) ==
  [a EXCEPT ![0] = ALLOCATED,
            ![1] = 0,
            ![2] = ALLOCATED,
            ![3] = 0,
            ![4] = FREE,
            ![5] = Byte(InitFreePayload),
            ![BYTE_COUNT - 6] = Byte(InitFreePayload),
            ![BYTE_COUNT - 5] = FREE,
            ![BYTE_COUNT - 4] = ALLOCATED,
            ![BYTE_COUNT - 3] = 0,
            ![BYTE_COUNT - 2] = 0,
            ![BYTE_COUNT - 1] = ALLOCATED]

simple_init(a) ==
  [a EXCEPT ![0] = ALLOCATED,
            ![1] = 0,
            ![2] = 0,
            ![3] = ALLOCATED,
            ![4] = FREE,
            ![5] = Byte(InitFreePayload),
            ![BYTE_COUNT - 6] = Byte(InitFreePayload),
            ![BYTE_COUNT - 5] = FREE,
            ![BYTE_COUNT - 4] = ALLOCATED,
            ![BYTE_COUNT - 3] = 0,
            ![BYTE_COUNT - 2] = 0,
            ![BYTE_COUNT - 1] = ALLOCATED]

\* the offsets simple_init writes
simple_init_touched ==
  {0, 1, 2, 3, 4, 5} \cup ((BYTE_COUNT - 6) .. (BYTE_COUNT - 1))

\* --------------------------------------------------------- simple_allocate
\* The subtractions below are on unsigned int.  Line 129 has established
\* PAYLOAD_SIZE >= req_size before line 130 subtracts, and line 130 has
\* established PAYLOAD_SIZE - req_size >= MIN_BLOCK_SIZE before line 135
\* subtracts CONTROL_FIELDS_SIZE, so neither difference is negative and the
\* 32-bit wrap-around cannot occur; the differences are plain integers here.

\* mutant: line 132 writes the next block's top status (offset + 4)
\* instead of this block's bottom status (offset + 3)
alloc_consume_next_status(a, block_ptr, visited, touched) ==
  LET a1 == Wr(a, block_ptr, ALLOCATED)
      a2 == Wr(a1, NextTopStatusAt(a1, block_ptr), ALLOCATED)
  IN  [area |-> a2, ret |-> USER_PTR(block_ptr), visited |-> visited,
       touched |-> touched \cup {block_ptr, NextTopStatusAt(a1, block_ptr)}]

\* lines 131-133: the remainder is too small for a free block, take it whole
alloc_consume(a, block_ptr, visited, touched) ==
  LET a1 == Wr(a, block_ptr, ALLOCATED)
      a2 == Wr(a1, BottomStatusAt(a1, block_ptr), ALLOCATED)
  IN  [area |-> a2, ret |-> USER_PTR(block_ptr), visited |-> visited,
       touched |-> touched \cup {block_ptr, BottomStatusAt(a1, block_ptr)}]

\* mutant: line 138 left out, the remainder's trailer size is never written
alloc_split_no_tail(a, block_ptr, req_size, visited, touched) ==
  LET remaining_payload_size ==
        PAYLOAD_SIZE(a, block_ptr) - req_size - CONTROL_FIELDS_SIZE
      a2 == Wr(a, block_ptr, ALLOCATED)
      a3 == Wr(a2, block_ptr + 1, req_size)
      a4 == Wr(a3, BottomSizeAt(a3, block_ptr), req_size)
      a5 == Wr(a4, BottomStatusAt(a4, block_ptr), ALLOCATED)
      a6 == Wr(a5, NextTopStatusAt(a5, block_ptr), FREE)
      a7 == Wr(a6, NextTopSizeAt(a6, block_ptr), remaining_payload_size)
  IN  [area |-> a7, ret |-> USER_PTR(block_ptr), visited |-> visited,
       touched |-> touched \cup
         {block_ptr, block_ptr + 1,
          BottomSizeAt(a3, block_ptr), BottomStatusAt(a4, block_ptr),
          NextTopStatusAt(a5, block_ptr), NextTopSizeAt(a6, block_ptr)}]

\* mutant: the remainder's control fields are not subtracted in line 135
alloc_split_no_overhead(a, block_ptr, req_size, visited, touched) ==
  LET remaining_payload_size == PAYLOAD_SIZE(a, block_ptr) - req_size
      a1 == Wr(a, BottomSizeAt(a, block_ptr), remaining_payload_size)
      a2 == Wr(a1, block_ptr, ALLOCATED)
      a3 == Wr(a2, block_ptr + 1, req_size)
      a4 == Wr(a3, BottomSizeAt(a3, block_ptr), req_size)
      a5 == Wr(a4, BottomStatusAt(a4, block_ptr), ALLOCATED)
      a6 == Wr(a5, NextTopStatusAt(a5, block_ptr), FREE)
      a7 == Wr(a6, NextTopSizeAt(a6, block_ptr), remaining_payload_size)
  IN  [area |-> a7, ret |-> USER_PTR(block_ptr), visited |-> visited,
       touched |-> touched \cup
         {BottomSizeAt(a, block_ptr), block_ptr, block_ptr + 1,
          BottomSizeAt(a3, block_ptr), BottomStatusAt(a4, block_ptr),
          NextTopStatusAt(a5, block_ptr), NextTopSizeAt(a6, block_ptr)}]

\* lines 135-148: split the top of the free block off for the request
alloc_split(a, block_ptr, req_size, visited, touched) ==
  LET remaining_payload_size ==
        PAYLOAD_SIZE(a, block_ptr) - req_size - CONTROL_FIELDS_SIZE
      a1 == Wr(a, BottomSizeAt(a, block_ptr), remaining_payload_size)
      a2 == Wr(a1, block_ptr, ALLOCATED)
      a3 == Wr(a2, block_ptr + 1, req_size)
      a4 == Wr(a3, BottomSizeAt(a3, block_ptr), req_size)
      a5 == Wr(a4, BottomStatusAt(a4, block_ptr), ALLOCATED)
      a6 == Wr(a5, NextTopStatusAt(a5, block_ptr), FREE)
      a7 == Wr(a6, NextTopSizeAt(a6, block_ptr), remaining_payload_size)
  IN  [area |-> a7, ret |-> USER_PTR(block_ptr), visited |-> visited,
       touched |-> touched \cup
         {BottomSizeAt(a, block_ptr), block_ptr, block_ptr + 1,
          BottomSizeAt(a3, block_ptr), BottomStatusAt(a4, block_ptr),
          NextTopStatusAt(a5, block_ptr), NextTopSizeAt(a6, block_ptr)}]

\* mutant: the status test of line 129 left out
alloc_fits_no_status(a, block_ptr, req_size) ==
  PAYLOAD_SIZE(a, block_ptr) >= req_size

\* mutant: > for >= in line 129
alloc_fits_strict(a, block_ptr, req_size) ==
  /\ TOP_STATUS(a, block_ptr) = FREE
  /\ PAYLOAD_SIZE(a, block_ptr) > req_size

\* line 129: the block at block_ptr is free and large enough
alloc_fits(a, block_ptr, req_size) ==
  /\ TOP_STATUS(a, block_ptr) = FREE
  /\ PAYLOAD_SIZE(a, block_ptr) >= req_size

\* mutant: <= for < in line 130
alloc_consumes_le(a, block_ptr, req_size) ==
  (PAYLOAD_SIZE(a, block_ptr) - req_size) <= MIN_BLOCK_SIZE

\* line 130: the remainder cannot hold a free block
alloc_consumes(a, block_ptr, req_size) ==
  (PAYLOAD_SIZE(a, block_ptr) - req_size) < MIN_BLOCK_SIZE

\* mutant: a free block is marked ALLOCATED before its size is tested
RECURSIVE alloc_scan_mark(_, _, _, _, _)
alloc_scan_mark(a, block_ptr, req_size, visited, touched) ==
  IF ~(block_ptr < BYTE_COUNT)
  THEN [area |-> a, ret |-> NULL, visited |-> visited, touched |-> touched]
  ELSE LET v == Append(visited, block_ptr)
           t == touched \cup {block_ptr, block_ptr + 1}
           m == IF TOP_STATUS(a, block_ptr) = FREE
                THEN Wr(a, block_ptr, ALLOCATED) ELSE a
       IN  IF alloc_fits(a, block_ptr, req_size)
           THEN IF alloc_consumes(a, block_ptr, req_size)
                THEN alloc_consume(a, block_ptr, v, t)
                ELSE alloc_split(a, block_ptr, req_size, v, t)
           ELSE alloc_scan_mark(m, block_ptr + BLOCK_SIZE(a, block_ptr),
                                req_size, v, t)

\* mutant: <= for < in the loop test of line 128
RECURSIVE alloc_scan_past_end(_, _, _, _, _)
alloc_scan_past_end(a, block_ptr, req_size, visited, touched) ==
  IF ~(block_ptr <= BYTE_COUNT)
  THEN [area |-> a, ret |-> NULL, visited |-> visited, touched |-> touched]
  ELSE LET v == Append(visited, block_ptr)
           t == touched \cup {block_ptr, block_ptr + 1}
       IN  IF alloc_fits(a, block_ptr, req_size)
           THEN IF alloc_consumes(a, block_ptr, req_size)
                THEN alloc_consume(a, block_ptr, v, t)
                ELSE alloc_split(a, block_ptr, req_size, v, t)
           ELSE alloc_scan_past_end(a, block_ptr + BLOCK_SIZE(a, block_ptr),
                                    req_size, v, t)

\* mutant: line 151 advances by the payload plus the header only
RECURSIVE alloc_scan_header_step(_, _, _, _, _)
alloc_scan_header_step(a, block_ptr, req_size, visited, touched) ==
  IF ~(block_ptr < BYTE_COUNT)
  THEN [area |-> a, ret |-> NULL, visited |-> visited, touched |-> touched]
  ELSE LET v == Append(visited, block_ptr)
           t == touched \cup {block_ptr, block_ptr + 1}
       IN  IF alloc_fits(a, block_ptr, req_size)
           THEN IF alloc_consumes(a, block_ptr, req_size)
                THEN alloc_consume(a, block_ptr, v, t)
                ELSE alloc_split(a, block_ptr, req_size, v, t)
           ELSE alloc_scan_header_step(
                  a, block_ptr + TOP_SIZE(a, block_ptr) + HEADER_SIZE,
                  req_size, v, t)

\* lines 128-154: the first-fit search, from block_ptr on
RECURSIVE alloc_scan(_, _, _, _, _)
alloc_scan(a, block_ptr, req_size, visited, touched) ==
  IF ~(block_ptr < BYTE_COUNT)
  THEN [area |-> a, ret |-> NULL, visited |-> visited, touched |-> touched]
  ELSE LET v == Append(visited, block_ptr)
           t == touched \cup {block_ptr, block_ptr + 1}
       IN  IF alloc_fits(a, block_ptr, req_size)
           THEN IF alloc_consumes(a, block_ptr, req_size)
                THEN alloc_consume(a, block_ptr, v, t)
                ELSE alloc_split(a, block_ptr, req_size, v, t)
           ELSE alloc_scan(a, block_ptr + BLOCK_SIZE(a, block_ptr), req_size, v, t)

\* mutant: the control fields are not subtracted from the limit
alloc_too_large_no_overhead(req_size) == req_size > BYTE_COUNT

\* line 123: requests that are too large are rejected before the search
alloc_too_large(req_size) == req_size > BYTE_COUNT - CONTROL_FIELDS_SIZE

simple_allocate(a, req_size) ==
  IF alloc_too_large(req_size)
  THEN [area |-> a, ret |-> NULL, visited |-> <<>>, touched |-> {}]
  ELSE alloc_scan(a, 0, req_size, <<>>, {})

\* ---------------------------------------------------------- simple_release
\* line 168: left_block == FREE compares the pointer itself with 0
left_is_free(left_block) == (AreaBase + left_block) = FREE

\* lines 168-172: the left loop; yields the final block_ptr and t_size
RECURSIVE release_left(_, _, _, _, _)
release_left(a, block_ptr, left_block, t_size, touched) ==
  IF left_is_free(left_block)
  THEN LET nb == block_ptr - 4 - Rd(a, block_ptr - 2)
       IN  release_left(a, nb, nb - 1, Rd(a, block_ptr - 2) + t_size,
                        touched \cup {block_ptr - 2})
  ELSE [block_ptr |-> block_ptr, t_size |-> t_size, touched |-> touched]

\* mutant: an if for the while of line 175, one neighbour at most is merged
release_right_once(a, block_ptr, t_size, touched, merged) ==
  LET at == block_ptr + t_size + 4 IN
  IF at \in Offsets /\ Rd(a, at) = FREE
  THEN [t_size |-> Rd(a, block_ptr + 5 + t_size) + t_size + 4,
        touched |-> touched \cup {at, block_ptr + 5 + t_size},
        merged |-> Append(merged, at)]
  ELSE [t_size |-> t_size, touched |-> touched \cup {at}, merged |-> merged]

\* mutant: line 176 adds the control fields of both blocks
RECURSIVE release_right_both_overheads(_, _, _, _, _)
release_right_both_overheads(a, block_ptr, t_size, touched, merged) ==
  LET at == block_ptr + t_size + 4 IN
  IF at \in Offsets /\ Rd(a, at) = FREE
  THEN release_right_both_overheads(
         a, block_ptr, Rd(a, block_ptr + 5 + t_size) + t_size + 8,
         touched \cup {at, block_ptr + 5 + t_size}, Append(merged, at))
  ELSE [t_size |-> t_size, touched |-> touched \cup {at}, merged |-> merged]

\* lines 175-177: the right loop; yields the final t_size.  A read beyond
\* area ends the walk (the offset is recorded as touched).
RECURSIVE release_right(_, _, _, _, _)
release_right(a, block_ptr, t_size, touched, merged) ==
  LET at == block_ptr + t_size + 4 IN
  IF at \in Offsets /\ Rd(a, at) = FREE
  THEN release_right(a, block_ptr, Rd(a, block_ptr + 5 + t_size) + t_size + 4,
                     touched \cup {at, block_ptr + 5 + t_size},
                     Append(merged, at))
  ELSE [t_size |-> t_size, touched |-> touched \cup {at}, merged |-> merged]

\* mutant: line 166 clears the byte after the trailer (offset + 4, the next
\* block's top status) instead of this block's bottom status (offset + 3)
simple_release_next_status(a, user_ptr) ==
  LET block_ptr == user_ptr - HEADER_SIZE
      t0 == TOP_SIZE(a, block_ptr)
      a1 == Wr(a, block_ptr, FREE)
      a2 == Wr(a1, NextTopStatusAt(a1, block_ptr), FREE)
      L  == release_left(a2, block_ptr, block_ptr - 1, t0,
                         {block_ptr, block_ptr + 1, NextTopStatusAt(a1, block_ptr)})
      R  == release_right(a2, L.block_ptr, L.t_size, L.touched, <<>>)
      a3 == Wr(a2, L.block_ptr + 1, R.t_size)
      a4 == Wr(a3, BottomSizeAt(a3, L.block_ptr), R.t_size)
  IN  [area |-> a4, block_ptr |-> L.block_ptr, t_size |-> R.t_size,
       merged |-> R.merged,
       touched |-> R.touched \cup {L.block_ptr + 1, BottomSizeAt(a3, L.block_ptr)}]

simple_release(a, user_ptr) ==
  LET block_ptr == user_ptr - HEADER_SIZE
      t0 == TOP_SIZE(a, block_ptr)
      a1 == Wr(a, block_ptr, FREE)
      a2 == Wr(a1, BottomStatusAt(a1, block_ptr), FREE)
      L  == release_left(a2, block_ptr, block_ptr - 1, t0,
                         {block_ptr, block_ptr + 1, BottomStatusAt(a1, block_ptr)})
      R  == release_right(a2, L.block_ptr, L.t_size, L.touched, <<>>)
      a3 == Wr(a2, L.block_ptr + 1, R.t_size)
      a4 == Wr(a3, BottomSizeAt(a3, L.block_ptr), R.t_size)
  IN  [area |-> a4, block_ptr |-> L.block_ptr, t_size |-> R.t_size,
       merged |-> R.merged,
       touched |-> R.touched \cup {L.block_ptr + 1, BottomSizeAt(a3, L.block_ptr)}]

\* ------------------------------------------------------------- the driver
\* main, lines 200-212: init, three allocate(12), then three releases
ScenSize == 12
ScenAfterAlloc(s, req_size, ret) ==
  IF s \in 0..2 /\ req_size = ScenSize /\ ret # NULL THEN s + 1 ELSE -1
ScenAfterRelease(s) ==
  IF s \in 3..5 THEN s + 1 ELSE -1

Init ==
  /\ pc = "start"
  /\ area = ZeroArea
  /\ handles = {}
  /\ lastOp = "none"
  /\ lastReq = 0
  /\ lastRet = NULL
  /\ scanned = <<>>
  /\ oob = FALSE
  /\ calls = 0
  /\ absorbed = <<>>
  /\ scen = -1

DoInit ==
  /\ pc = "start"
  /\ pc' = "run"
  /\ area' = simple_init(area)
  /\ lastOp' = "init"
  /\ scen' = 0
  /\ oob' = ~(simple_init_touched \subseteq Offsets)
  /\ UNCHANGED <<handles, lastReq, lastRet, scanned, calls, absorbed>>

Allocate(req_size) ==
  /\ pc = "run"
  /\ ~oob
  /\ calls < MaxCalls
  /\ Cardinality(handles) < MaxHandles
  /\ LET r == simple_allocate(area, req_size) IN
       /\ area' = r.area
       /\ handles' = IF r.ret = NULL THEN handles ELSE handles \cup {r.ret}
       /\ lastRet' = r.ret
       /\ scanned' = r.visited
       /\ oob' = ~(r.touched \subseteq Offsets)
       /\ scen' = ScenAfterAlloc(scen, req_size, r.ret)
  /\ absorbed' = <<>>
  /\ lastOp' = "alloc"
  /\ lastReq' = req_size
  /\ calls' = calls + 1
  /\ pc' = pc

Release(user_ptr) ==
  /\ pc = "run"
  /\ ~oob
  /\ calls < MaxCalls
  /\ user_ptr \in handles
  /\ LET r == simple_release(area, user_ptr) IN
       /\ area' = r.area
       /\ oob' = ~(r.touched \subseteq Offsets)
       /\ absorbed' = r.merged
  /\ handles' = handles \ {user_ptr}
  /\ lastOp' = "release"
  /\ lastReq' = user_ptr
  /\ lastRet' = NULL
  /\ scanned' = <<>>
  /\ scen' = ScenAfterRelease(scen)
  /\ calls' = calls + 1
  /\ pc' = pc

Next ==
  \/ DoInit
  \/ \E req_size \in ReqSizes : Allocate(req_size)
  \/ \E user_ptr \in handles : Release(user_ptr)

Spec == Init /\ [][Next]_vars

\* ------------------------------------------------------- the block walk
\* the blocks met walking from offset off by BLOCK_SIZE, as print_blocks does
RECURSIVE Walk(_, _)
Walk(a, off) ==
  IF ~(off < BYTE_COUNT) THEN <<>>
  ELSE <<[off |-> off,
          top_status |-> TOP_STATUS(a, off),
          top_size |-> TOP_SIZE(a, off),
          bottom_size |-> BOTTOM_SIZE(a, off),
          bottom_status |-> BOTTOM_STATUS(a, off)]>>
       \o Walk(a, off + BLOCK_SIZE(a, off))

Blocks == Walk(area, 0)

TypeOK ==
  /\ pc \in {"start", "run"}
  /\ area \in [Offsets -> 0 .. (ByteMod - 1)]
  /\ handles \subseteq Offsets
  /\ calls \in 0 .. MaxCalls

\* ------------------------------------------------------ layout predicates
Consistent(b) ==
  /\ b.top_status = b.bottom_status
  /\ b.top_size = b.bottom_size

RECURSIVE SumBlockSizes(_)
SumBlockSizes(B) ==
  IF B = <<>> THEN 0
  ELSE (Head(B).top_size + CONTROL_FIELDS_SIZE) + SumBlockSizes(Tail(B))

\* the walk from offset 0 ends exactly at the end of the arena
LandsOnEnd(B) ==
  /\ B # <<>>
  /\ B[Len(B)].off + B[Len(B)].top_size + CONTROL_FIELDS_SIZE = BYTE_COUNT

Sentinel(off) ==
  [off |-> off, top_status |-> ALLOCATED, top_size |-> 0,
   bottom_size |-> 0, bottom_status |-> ALLOCATED]

\* two sentinels around one free block of payload 244
FreshLayout ==
  << Sentinel(0),
     [off |-> 4, top_status |-> FREE, top_size |-> 244,
      bottom_size |-> 244, bottom_status |-> FREE],
     Sentinel(252) >>

\* the block that owns user pointer p
OwnerOf(p) == p - HEADER_SIZE

\* ------------------------------------------------------------------ claims

\* C1: once initialised, after any allocate/release sequence the arena is
\* exactly partitioned into blocks: the walk from offset 0 by block size lands
\* on 256, the block sizes (payload + 4) sum to 256, and every block's head
\* status/size equal its tail status/size.
C1_Partition ==
  pc = "run" =>
    LET B == Blocks IN
      /\ LandsOnEnd(B)
      /\ SumBlockSizes(B) = BYTE_COUNT
      /\ \A i \in 1 .. Len(B) : Consistent(B[i])

C1_Witness ==
  /\ lastOp = "release"
  /\ Cardinality(handles) = 2
  /\ Len(Blocks) >= 6
  /\ \E i \in 1 .. Len(Blocks) : Blocks[i].top_status = FREE /\ Blocks[i].top_size > 12

\* C2 (as stated): after any release no two consecutive blocks are both FREE.
C2_NoAdjacentFree ==
  lastOp = "release" =>
    LET B == Blocks IN
      \A i \in 1 .. (Len(B) - 1) :
        ~(B[i].top_status = FREE /\ B[i + 1].top_status = FREE)

\* C3: a handle returned by allocate(n) owns a block marked ALLOCATED at head
\* and tail whose payload p satisfies n <= p <= n + MIN_BLOCK_SIZE - 1.
C3_AllocatedSize ==
  (lastOp = "alloc" /\ lastRet # NULL) =>
    LET bp == OwnerOf(lastRet) IN
      /\ bp \in Offsets
      /\ TOP_STATUS(area, bp) = ALLOCATED
      /\ BOTTOM_STATUS(area, bp) = ALLOCATED
      /\ lastReq <= PAYLOAD_SIZE(area, bp)
      /\ PAYLOAD_SIZE(area, bp) <= lastReq + MIN_BLOCK_SIZE - 1

\* an allocation that got the full 5 bytes extra
C3_Witness ==
  /\ lastOp = "alloc"
  /\ lastRet # NULL
  /\ PAYLOAD_SIZE(area, OwnerOf(lastRet)) = lastReq + MIN_BLOCK_SIZE - 1

\* C4: allocate(n) with n > 252 fails and examines no block.
C4_TooLargeRejected ==
  (lastOp = "alloc" /\ lastReq > BYTE_COUNT - CONTROL_FIELDS_SIZE) =>
    /\ lastRet = NULL
    /\ scanned = <<>>

C4_Witness ==
  /\ lastOp = "alloc"
  /\ lastReq = BYTE_COUNT - CONTROL_FIELDS_SIZE + 1
  /\ lastRet = NULL
  /\ handles # {}

\* C5: an allocate call that fails leaves every byte of the arena unchanged.
C5_FailedAllocateNoMutation ==
  [][(lastOp' = "alloc" /\ lastRet' = NULL) => area' = area]_vars

\* an out-of-memory failure: the request was searched for and not found,
\* past free blocks that were too small
C5_Witness ==
  /\ lastOp = "alloc"
  /\ lastRet = NULL
  /\ ~alloc_too_large(lastReq)
  /\ \E i \in 1 .. Len(scanned) : TOP_STATUS(area, scanned[i]) = FREE

\* C6 (as stated): after init and three allocate(12), releasing the three
\* handles in any order leaves one free block of payload 244.
C6_AnyOrderRestores ==
  scen = 6 => Blocks = FreshLayout

\* C7 (as stated): with no allocation outstanding, a successful allocate(n)
\* followed immediately by the release of its handle leaves one free block of
\* payload 244 between the sentinels.
C7_RoundTrip ==
  [][(lastOp = "alloc" /\ lastRet # NULL /\ handles = {lastRet}
        /\ lastOp' = "release")
      => Walk(area', 0) = FreshLayout]_vars

\* C8: the blocks at offsets 0 and 252 stay ALLOCATED with payload 0 at head
\* and tail, and no handle ever points into either of them.
SentinelBytes == {0, 1, 2, 3} \cup ((BYTE_COUNT - 4) .. (BYTE_COUNT - 1))

C8_SentinelsPermanent ==
  pc = "run" =>
    /\ area[0] = ALLOCATED /\ area[1] = 0 /\ area[2] = 0 /\ area[3] = ALLOCATED
    /\ area[BYTE_COUNT - 4] = ALLOCATED /\ area[BYTE_COUNT - 3] = 0
    /\ area[BYTE_COUNT - 2] = 0 /\ area[BYTE_COUNT - 1] = ALLOCATED
    /\ handles \cap SentinelBytes = {}
    /\ lastRet \notin SentinelBytes

\* a release next to both sentinels, after an allocation that took the
\* whole middle block
C8_Witness ==
  /\ lastOp = "release"
  /\ OwnerOf(lastReq) = 4
  /\ Len(Blocks) = 3
  /\ calls >= 4

\* C9: right after simple_init the arena is three blocks: ALLOCATED payload 0
\* at offset 0, FREE payload 244 at offset 4, ALLOCATED payload 0 at offset
\* 252, each with head fields equal to tail fields.
C9_InitLayout ==
  lastOp = "init" =>
    /\ Len(Blocks) = 3
    /\ Blocks[1] = Sentinel(0)
    /\ Blocks[2].off = 4 /\ Blocks[2].top_status = FREE /\ Blocks[2].top_size = 244
    /\ Blocks[3] = Sentinel(252)
    /\ \A i \in 1 .. 3 : Consistent(Blocks[i])

C9_Witness ==
  /\ pc = "run"
  /\ lastOp = "init"
  /\ calls = 0

\* C10 (as stated): the free block made by initialisation has payload
\* C - 2 x control_overhead (248).
C10_TwoOverheads ==
  lastOp = "init" =>
    PAYLOAD_SIZE(area, 4) = BYTE_COUNT - 2 * CONTROL_FIELDS_SIZE

\* C10 (amended): the free block made by initialisation has payload
\* C - 3 x control_overhead (244): the two sentinels and the free block
\* itself each cost one control overhead.
C10_ThreeOverheads ==
  lastOp = "init" =>
    /\ TOP_STATUS(area, 4) = FREE
    /\ PAYLOAD_SIZE(area, 4) = BYTE_COUNT - 3 * CONTROL_FIELDS_SIZE
    /\ BOTTOM_SIZE(area, 4) = BYTE_COUNT - 3 * CONTROL_FIELDS_SIZE

C10_Witness ==
  /\ lastOp = "init"
  /\ area # ZeroArea
  /\ handles = {}

\* ---------------------------------------------------- steps and pre-states
\* a step that is a call of simple_allocate / simple_release
AllocStep == lastOp' = "alloc"
ReleaseStep == lastOp' = "release"

\* offsets of the FREE blocks of arena a whose payload is at least n
FitOffsets(a, n) ==
  LET B == Walk(a, 0) IN
    {B[i].off : i \in {j \in 1 .. Len(B) :
                         B[j].top_status = FREE /\ B[j].top_size >= n}}

MinOf(S) == CHOOSE x \in S : \A y \in S : x <= y

\* C11: first fit.  For n <= 252, simple_allocate(n) fails exactly when no
\* FREE block has payload >= n, and otherwise allocates the lowest-offset
\* FREE block whose payload is >= n.
C11_FirstFit ==
  [][(AllocStep /\ lastReq' <= BYTE_COUNT - CONTROL_FIELDS_SIZE) =>
       LET fit == FitOffsets(area, lastReq') IN
         /\ (lastRet' = NULL) <=> (fit = {})
         /\ (fit # {}) => (OwnerOf(lastRet') = MinOf(fit))]_vars

\* a successful allocation that passed over a free block that was too small
C11_Witness ==
  /\ lastOp = "alloc"
  /\ lastRet # NULL
  /\ \E i \in 1 .. Len(scanned) :
       /\ scanned[i] < OwnerOf(lastRet)
       /\ TOP_STATUS(area, scanned[i]) = FREE
       /\ PAYLOAD_SIZE(area, scanned[i]) < lastReq

\* C12: split or consume.  When simple_allocate(n) selects a free block of
\* payload s at offset o: if s - n >= MIN_BLOCK_SIZE the result is an
\* ALLOCATED block at o of payload exactly n followed at o + n + 4 by a FREE
\* block of payload s - n - 4 with consistent head and tail; otherwise the
\* block at o is marked ALLOCATED at head and tail, keeps payload s, and no
\* block is created.
C12_SplitOrConsume ==
  [][(AllocStep /\ lastRet' # NULL) =>
       LET o == OwnerOf(lastRet')
           n == lastReq'
           sz == PAYLOAD_SIZE(area, o)
           before == Walk(area, 0)
           after == Walk(area', 0)
       IN  IF sz - n >= MIN_BLOCK_SIZE
           THEN /\ area'[o] = ALLOCATED /\ area'[o + 1] = n
                /\ area'[o + n + 2] = n /\ area'[o + n + 3] = ALLOCATED
                /\ area'[o + n + 4] = FREE /\ area'[o + n + 5] = sz - n - 4
                /\ area'[o + sz + 2] = sz - n - 4 /\ area'[o + sz + 3] = FREE
                /\ Len(after) = Len(before) + 1
           ELSE /\ area'[o] = ALLOCATED /\ area'[o + 1] = sz
                /\ area'[o + sz + 2] = sz /\ area'[o + sz + 3] = ALLOCATED
                /\ Len(after) = Len(before)]_vars

\* a split that leaves the smallest remainder a split can leave
C12_Witness ==
  /\ lastOp = "alloc"
  /\ lastRet # NULL
  /\ PAYLOAD_SIZE(area, OwnerOf(lastRet)) = lastReq
  /\ TOP_STATUS(area, NextTopStatusAt(area, OwnerOf(lastRet))) = FREE
  /\ PAYLOAD_SIZE(area, NextTopStatusAt(area, OwnerOf(lastRet))) = MIN_PAYLOAD_SIZE
  /\ lastReq > MIN_BLOCK_SIZE

\* the run of consecutive FREE blocks of arena a that starts at offset off
RECURSIVE FreeRun(_, _)
FreeRun(a, off) ==
  IF off \in Offsets /\ TOP_STATUS(a, off) = FREE
  THEN <<[off |-> off, size |-> PAYLOAD_SIZE(a, off)]>>
       \o FreeRun(a, off + BLOCK_SIZE(a, off))
  ELSE <<>>

RECURSIVE RunBytes(_)
RunBytes(run) ==
  IF run = <<>> THEN 0
  ELSE (Head(run).size + CONTROL_FIELDS_SIZE) + RunBytes(Tail(run))

\* C13: right coalescing.  When the released block of payload s at offset o
\* is followed by k >= 1 consecutive FREE blocks of payloads r1..rk and then
\* an ALLOCATED block, it ends up FREE at offset o with payload
\* s + (r1 + 4) + ... + (rk + 4) in its head and in its new tail, its tail
\* status is FREE, and its right neighbour is that ALLOCATED block.
C13_RightCoalesce ==
  [][ReleaseStep =>
       LET o == OwnerOf(lastReq')
           sz == PAYLOAD_SIZE(area, o)
           run == FreeRun(area, o + sz + CONTROL_FIELDS_SIZE)
           total == sz + RunBytes(run)
       IN  Len(run) >= 1 =>
             /\ area'[o] = FREE
             /\ area'[o + 1] = total
             /\ area'[o + total + 2] = total
             /\ area'[o + total + 3] = FREE
             /\ area[o + total + 4] = ALLOCATED
             /\ area'[o + total + 4] = ALLOCATED
             /\ \E i \in 1 .. (Len(Walk(area', 0)) - 1) :
                  /\ Walk(area', 0)[i].off = o
                  /\ Walk(area', 0)[i + 1].off = o + total + 4]_vars

\* a release that merged two free right neighbours
C13_Witness ==
  /\ lastOp = "release"
  /\ Len(absorbed) >= 2
  /\ TOP_STATUS(area, OwnerOf(lastReq)) = FREE

\* index in walk B of the block at offset off (0 when there is none)
IndexOf(B, off) ==
  IF \E i \in 1 .. Len(B) : B[i].off = off
  THEN CHOOSE i \in 1 .. Len(B) : B[i].off = off
  ELSE 0

\* C14 (as stated): left coalescing.  When the released block of payload s
\* has an immediate left neighbour that is FREE with payload l at offset ol
\* (not the bottom sentinel), the neighbour is absorbed: afterwards the free
\* block starts at ol and its payload is at least l + s + 4.
C14_LeftCoalesce ==
  [][ReleaseStep =>
       LET o == OwnerOf(lastReq')
           sz == PAYLOAD_SIZE(area, o)
           B == Walk(area, 0)
           i == IndexOf(B, o)
       IN  (i > 2 /\ B[i - 1].top_status = FREE) =>
             LET ol == B[i - 1].off
                 l == B[i - 1].top_size
                 after == Walk(area', 0)
             IN  /\ IndexOf(after, o) = 0
                 /\ IndexOf(after, ol) # 0
                 /\ area'[ol] = FREE
                 /\ area'[ol + 1] >= l + sz + CONTROL_FIELDS_SIZE]_vars

\* the bytes of arena a and arena b agree outside offsets lo .. hi
SameOutside(a, b, lo, hi) ==
  {i \in Offsets : a[i] # b[i]} \subseteq lo .. hi

\* every block of walk B that lies outside lo .. hi is a block of walk A too,
\* with the same four fields
BlocksKept(B, A, lo, hi) ==
  LET SA == {A[j] : j \in 1 .. Len(A)} IN
    \A i \in 1 .. Len(B) :
      (B[i].off + B[i].top_size + 3 < lo \/ B[i].off > hi) => B[i] \in SA

\* C15: frame.  simple_allocate changes only bytes of the free block it found
\* (the remainder block lies inside that block's former extent), and
\* simple_release changes only bytes of the released block and of the free
\* blocks it absorbs; every other block keeps its status and size fields.
C15_Frame ==
  [][/\ (AllocStep /\ lastRet' = NULL) => area' = area
     /\ (AllocStep /\ lastRet' # NULL) =>
          LET o == OwnerOf(lastRet')
              hi == o + PAYLOAD_SIZE(area, o) + 3
          IN  /\ SameOutside(area, area', o, hi)
              /\ BlocksKept(Walk(area, 0), Walk(area', 0), o, hi)
     /\ ReleaseStep =>
          LET o == OwnerOf(lastReq')
              sz == PAYLOAD_SIZE(area, o)
              run == FreeRun(area, o + sz + CONTROL_FIELDS_SIZE)
              hi == o + sz + RunBytes(run) + 3
          IN  /\ SameOutside(area, area', o, hi)
              /\ BlocksKept(Walk(area, 0), Walk(area', 0), o, hi)]_vars

\* a release that absorbed a free right neighbour while the blocks on both
\* sides of the merged run were outstanding allocations
C15_Witness ==
  /\ lastOp = "release"
  /\ Len(absorbed) >= 1
  /\ LET o == OwnerOf(lastReq)
         B == Blocks
         i == IndexOf(B, o)
     IN  /\ i > 2
         /\ i < Len(B) - 1
         /\ USER_PTR(B[i - 1].off) \in handles
         /\ USER_PTR(B[i + 1].off) \in handles

\* the largest payload a block between the two sentinels can have
MaxPayload == BYTE_COUNT - 3 * CONTROL_FIELDS_SIZE

\* C16: no size is truncated by the one-byte size field.  The t_size that
\* simple_release has accumulated when it stores it is at most 244 (so at
\* most 255) and the stored head and tail bytes equal it; the sizes
\* simple_allocate writes (the request, the remainder) are at most 244 and
\* are stored unchanged.
C16_NoTruncation ==
  [][/\ ReleaseStep =>
          LET r == simple_release(area, lastReq') IN
            /\ r.t_size <= ByteMod - 1
            /\ r.t_size <= MaxPayload
            /\ TOP_SIZE(area', r.block_ptr) = r.t_size
            /\ BOTTOM_SIZE(area', r.block_ptr) = r.t_size
     /\ (AllocStep /\ lastRet' # NULL) =>
          LET o == OwnerOf(lastRet')
              n == lastReq'
              sz == PAYLOAD_SIZE(area, o)
          IN  /\ sz <= MaxPayload
              /\ TOP_SIZE(area', o) \in {n, sz}
              /\ TOP_SIZE(area', o) = n =>
                   (n = sz \/ area'[o + n + 5] = sz - n - CONTROL_FIELDS_SIZE)]_vars

\* a release whose merged size is the largest possible, 244
C16_Witness ==
  /\ lastOp = "release"
  /\ Len(absorbed) >= 1
  /\ PAYLOAD_SIZE(area, OwnerOf(lastReq)) = MaxPayload
  /\ BOTTOM_SIZE(area, OwnerOf(lastReq)) = MaxPayload

\* C17 (as stated): every FREE block has payload >= MIN_PAYLOAD_SIZE.
C17_FreeBlocksLegal ==
  pc = "run" =>
    LET B == Blocks IN
      \A i \in 1 .. Len(B) :
        B[i].top_status = FREE => B[i].top_size >= MIN_PAYLOAD_SIZE

\* the bytes of the block owning user pointer p in arena a: header, payload
\* and trailer; and its payload bytes alone
Extent(a, p) == OwnerOf(p) .. (OwnerOf(p) + PAYLOAD_SIZE(a, OwnerOf(p)) + 3)
Payload(a, p) == p .. (p + PAYLOAD_SIZE(a, OwnerOf(p)) - 1)

\* the offsets the call of this step reads or writes
StepTouched ==
  IF AllocStep THEN simple_allocate(area, lastReq').touched
  ELSE IF ReleaseStep THEN simple_release(area, lastReq').touched
  ELSE {}

\* C18: outstanding allocations are never disturbed.  After every call the
\* blocks owning distinct outstanding handles occupy pairwise disjoint byte
\* ranges and are ALLOCATED with equal sizes at head and tail; a handle that
\* stays outstanding across a call keeps every byte of its block, the call
\* touches no byte of its payload, and allocate never returns a handle that
\* is already outstanding.
C18_OutstandingUndisturbed ==
  [][(AllocStep \/ ReleaseStep) =>
       LET changed == {i \in Offsets : area[i] # area'[i]}
           touched == StepTouched
       IN  /\ \A h \in handles' :
                /\ TOP_STATUS(area', OwnerOf(h)) = ALLOCATED
                /\ BOTTOM_STATUS(area', OwnerOf(h)) = ALLOCATED
                /\ BOTTOM_SIZE(area', OwnerOf(h)) = TOP_SIZE(area', OwnerOf(h))
                /\ Extent(area', h) \subseteq Offsets
           /\ \A h1, h2 \in handles' :
                h1 # h2 => Extent(area', h1) \cap Extent(area', h2) = {}
           /\ (AllocStep /\ lastRet' # NULL) => lastRet' \notin handles
           /\ \A h \in handles \cap handles' :
                /\ changed \cap Extent(area, h) = {}
                /\ touched \cap Payload(area, h) = {}]_vars

\* an allocation placed in a hole between two outstanding allocations
C18_Witness ==
  /\ lastOp = "alloc"
  /\ lastRet # NULL
  /\ Cardinality(handles) = 3
  /\ LET B == Blocks
         i == IndexOf(B, OwnerOf(lastRet))
     IN  /\ i > 2
         /\ i < Len(B) - 1
         /\ USER_PTR(B[i - 1].off) \in handles
         /\ \E j \in (i + 1) .. (Len(B) - 1) : USER_PTR(B[j].off) \in handles

\* C19: every arena offset that simple_init, simple_allocate and
\* simple_release read or write lies within 0 .. 255.
C19_InBounds ==
  oob = FALSE

\* a search that ran to the top sentinel and read its two header bytes, the
\* highest offsets a search reads
C19_Witness ==
  /\ lastOp = "alloc"
  /\ lastRet = NULL
  /\ scanned # <<>>
  /\ scanned[Len(scanned)] = BYTE_COUNT - CONTROL_FIELDS_SIZE
  /\ Len(scanned) >= 5

\* consecutive entries of sequence q of offsets grow by at least 4
AdvancesByBlock(q) ==
  \A i \in 1 .. (Len(q) - 1) : q[i + 1] >= q[i] + CONTROL_FIELDS_SIZE

\* C20: every call terminates.  The search of simple_allocate advances by at
\* least 4 bytes per iteration over offsets below 256, so it makes at most 64
\* iterations, and a search that finds nothing ends exactly at offset 256;
\* the right loop of simple_release advances by at least 4 bytes per
\* iteration and stops at an ALLOCATED block no later than the top sentinel
\* at offset 252.
C20_LoopsBounded ==
  /\ lastOp = "alloc" =>
       /\ AdvancesByBlock(scanned)
       /\ \A i \in 1 .. Len(scanned) : scanned[i] \in Offsets
       /\ Len(scanned) * CONTROL_FIELDS_SIZE <= BYTE_COUNT
       /\ (lastRet = NULL /\ ~alloc_too_large(lastReq)) =>
            /\ scanned # <<>>
            /\ scanned[Len(scanned)] + BLOCK_SIZE(area, scanned[Len(scanned)])
                 = BYTE_COUNT
       /\ lastRet # NULL => scanned[Len(scanned)] = OwnerOf(lastRet)
  /\ lastOp = "release" =>
       LET stop == NextTopStatusAt(area, OwnerOf(lastReq)) IN
         /\ AdvancesByBlock(absorbed)
         /\ \A i \in 1 .. Len(absorbed) :
              /\ absorbed[i] > OwnerOf(lastReq)
              /\ absorbed[i] < stop
         /\ stop <= BYTE_COUNT - CONTROL_FIELDS_SIZE
         /\ TOP_STATUS(area, stop) = ALLOCATED

\* a search that visited many blocks before it gave up at the end of the arena
C20_Witness ==
  /\ lastOp = "alloc"
  /\ lastRet = NULL
  /\ Len(scanned) >= 6
  /\ \E i \in 1 .. Len(scanned) : TOP_STATUS(area, scanned[i]) = FREE

====
